---- MODULE Spec2Model ----
(***************************************************************************)
(* Model of device-query.py: a batch job that loads a device list,         *)
(* deduplicates it by hostname and, for each device in turn, opens a       *)
(* session, backs up the running configuration, extracts four facts from   *)
(* command output, prints a report line and disconnects.                   *)
(*                                                                         *)
(* Text is modelled as a sequence of one-character strings, and the        *)
(* Python string operations the program uses (find, slicing, strip,        *)
(* replace, re.sub, split, lower, splitlines, startswith, str) are         *)
(* operators on such sequences that compute what Python computes.          *)
(***************************************************************************)
EXTENDS Integers, Sequences, FiniteSets, TLC

(***************************************************************************)
(* Bounds of the model.                                                    *)
(***************************************************************************)
\* longest device file (number of CSV rows) the batch specification reads
MaxRows == 3
\* largest reading of the wall clock (the timestamps are 0..MaxClock)
MaxClock == 1
\* most lines that follow the header in an enumerated 'sh cdp nei' output
MaxNeiLines == 5
\* most path pieces, separated by ':' or '/', in an enumerated image path
MaxPathParts == 3

(***************************************************************************)
(* String literals of the program.                                         *)
(***************************************************************************)
S_SEP == <<" ","|"," ">>
S_PID == <<"P","I","D",":">>
S_COMMA == <<",">>
S_MARKER ==
    <<"S","y","s","t","e","m"," ","i","m","a","g","e"," ","f","i","l","e"," ","i","s">>
S_NPE == <<"n","p","e">>
S_PE == <<"P","E"," ">>
S_NPE_UP == <<"N","P","E">>
S_INV_FAILED ==
    <<"D","E","V","I","C","E"," ","I","N","V","E","N","T","O","R","Y"," ","F","A","I","L","E","D">>
S_VER_FAILED ==
    <<"D","E","V","I","C","E"," ","V","E","R","S","I","O","N"," ","F","A","I","L","E","D">>
S_CDP_RUN_FAILED ==
    <<"D","E","V","I","C","E"," ","C","D","P"," ","R","U","N"," ","F","A","I","L","E","D">>
S_CDP_NEI_FAILED ==
    <<"D","E","V","I","C","E"," ","C","D","P"," ","N","E","I","G","H","B","O","U","R","S"," ","F","A","I","L","E","D">>
S_NTP_FAILED ==
    <<"D","E","V","I","C","E"," ","N","T","P"," ","F","A","I","L","E","D">>
S_CDP_NOT_ENABLED ==
    <<"C","D","P"," ","i","s"," ","n","o","t"," ","e","n","a","b","l","e","d">>
S_DEVICE_ID == <<"D","e","v","i","c","e"," ","I","D">>
S_CDP_IS == <<"C","D","P"," ","i","s"," ">>
S_ON == <<"O","N">>
S_OFF == <<"O","F","F">>
S_COMMA_SP == <<","," ">>
S_PEERS == <<" ","p","e","e","r","s">>
S_RATE0 ==
    <<"S","u","c","c","e","s","s"," ","r","a","t","e"," ","i","s"," ","0">>
S_NOT_REACH ==
    <<"N","T","P"," ","s","e","r","v","e","r"," ","n","o","t"," ","r","e","a","c","h","a","b","l","e",","," ">>
S_UNSYNC ==
    <<"C","l","o","c","k"," ","i","s"," ","u","n","s","y","n","c","h","r","o","n","i","z","e","d">>
S_NOT_SYNC ==
    <<"C","l","o","c","k"," ","i","s"," ","n","o","t"," ","s","y","n","c">>
S_SYNC == <<"C","l","o","c","k"," ","i","s"," ","S","y","n","c">>
CMD_PING == <<"p","i","n","g"," ">>
CMD_NTP_SERVER == <<"n","t","p"," ","s","e","r","v","e","r"," ">>
CMD_SH_RUN == <<"s","h"," ","r","u","n">>
CMD_SH_INV == <<"s","h"," ","i","n","v">>
CMD_SH_VER == <<"s","h"," ","v","e","r">>
CMD_SH_CDP == <<"s","h"," ","c","d","p">>
CMD_SH_CDP_NEI == <<"s","h"," ","c","d","p"," ","n","e","i">>
CMD_NTP_STATUS ==
    <<"s","h"," ","n","t","p"," ","s","t","a","t","u","s"," ","|"," ","i"," ","C","l","o","c","k"," ","i","s">>
CMD_TERM_LEN == <<"t","e","r","m","i","n","a","l"," ","l","e","n"," ","0">>
CMD_TERM_WIDTH ==
    <<"t","e","r","m","i","n","a","l"," ","w","i","d","t","h"," ","5","1","1">>
BACKUP_DIR_PATH == <<"b","a","c","k","u","p">>

(***************************************************************************)
(* Python string operations.  Indices are Python's (0-based); Find         *)
(* returns -1 when the text is absent; PySlice clamps and wraps negative   *)
(* indices the way s[a:b] does.                                            *)
(***************************************************************************)
Min(a, b) == IF a < b THEN a ELSE b

Max(a, b) == IF a > b THEN a ELSE b

\* s[p:p+len(sub)] == sub, p 0-based
MatchAt(s, sub, p) ==
    /\ p >= 0
    /\ p + Len(sub) <= Len(s)
    /\ \A k \in 1..Len(sub) : s[p + k] = sub[k]

\* s.find(sub, start)
FindFrom(s, sub, start) ==
    LET hits == {p \in start..(Len(s) - Len(sub)) : MatchAt(s, sub, p)}
    IN  IF hits = {} THEN -1 ELSE CHOOSE p \in hits : \A q \in hits : p <= q

\* s.find(sub)
Find(s, sub) == FindFrom(s, sub, 0)

\* s.rfind(sub)
RFind(s, sub) ==
    LET hits == {p \in 0..(Len(s) - Len(sub)) : MatchAt(s, sub, p)}
    IN  IF hits = {} THEN -1 ELSE CHOOSE p \in hits : \A q \in hits : p >= q

\* the index a slice bound denotes in a string of length n
SliceIndex(i, n) == IF i < 0 THEN Max(i + n, 0) ELSE Min(i, n)

\* s[a:b]
PySlice(s, a, b) ==
    SubSeq(s, SliceIndex(a, Len(s)) + 1, SliceIndex(b, Len(s)))

\* s[a:]
PySliceFrom(s, a) == PySlice(s, a, Len(s))

Whitespace == {" ", "\n", "\t", "\r"}

RECURSIVE LStrip(_)
LStrip(s) ==
    IF s # <<>> /\ Head(s) \in Whitespace THEN LStrip(Tail(s)) ELSE s

RECURSIVE RStrip(_)
RStrip(s) ==
    IF s # <<>> /\ s[Len(s)] \in Whitespace
    THEN RStrip(SubSeq(s, 1, Len(s) - 1))
    ELSE s

\* s.strip()
Strip(s) == RStrip(LStrip(s))

\* s.replace(c, '') for a one-character c
RemoveChar(s, c) == SelectSeq(s, LAMBDA x : x # c)

\* re.sub(r"\.bin$", "", s); '$' also matches before one trailing newline
SubBinSuffix(s) ==
    LET n == Len(s)
    IN  IF n >= 4 /\ SubSeq(s, n - 3, n) = <<".","b","i","n">>
        THEN SubSeq(s, 1, n - 4)
        ELSE IF n >= 5 /\ SubSeq(s, n - 4, n) = <<".","b","i","n","\n">>
        THEN SubSeq(s, 1, n - 5) \o <<"\n">>
        ELSE s

\* s.split(c): the pieces between the occurrences of the character c
RECURSIVE Split(_, _)
Split(s, c) ==
    LET p == Find(s, <<c>>)
    IN  IF p = -1 THEN <<s>>
        ELSE <<PySlice(s, 0, p)>> \o Split(PySliceFrom(s, p + 1), c)

LowerChar(c) ==
    CASE c = "N" -> "n"
      [] c = "P" -> "p"
      [] c = "E" -> "e"
      [] c = "X" -> "x"
      [] OTHER -> c

\* s.lower(), on the letters the enumerated inputs use
Lower(s) == [k \in 1..Len(s) |-> LowerChar(s[k])]

\* s.splitlines() for text whose only line break is "\n"
RECURSIVE SplitLines(_)
SplitLines(s) ==
    LET p == Find(s, <<"\n">>)
    IN  IF s = <<>> THEN <<>>
        ELSE IF p = -1 THEN <<s>>
        ELSE <<PySlice(s, 0, p)>> \o SplitLines(PySliceFrom(s, p + 1))

\* s.startswith(pre)
StartsWith(s, pre) == MatchAt(s, pre, 0)

Digit(d) == <<"0","1","2","3","4","5","6","7","8","9">>[d + 1]

RECURSIVE Dec(_)
Dec(n) == IF n < 10 THEN <<Digit(n)>> ELSE Dec(n \div 10) \o <<Digit(n % 10)>>

\* str(n) for an integer n
Str(n) == IF n < 0 THEN <<"-">> \o Dec(-n) ELSE Dec(n)

(***************************************************************************)
(* The parsing done by the fact extractors, as functions of the command    *)
(* output.                                                                 *)
(***************************************************************************)
\* get_device_inv_info: the text between the first "PID:" and the next comma
InvParse(output) ==
    LET o1 == PySliceFrom(output, Find(output, S_PID) + 4)
        o2 == PySlice(o1, 0, Find(o1, S_COMMA))
    IN  Strip(o2)

\* get_device_ver_info: the sanitized text of the marker line
VerLine(output) ==
    LET idx == Find(output, S_MARKER) + Len(S_MARKER)
    IN  SubBinSuffix(RemoveChar(
            Strip(PySlice(output, idx, FindFrom(output, <<"\n">>, idx))), "\""))

\* VerAfterColon cutting at the last ':' (rfind) instead of the first
VerAfterColon_Last(line) == PySliceFrom(line, RFind(line, <<":">>) + 1)

\* get_device_ver_info: substring after ':' if any
VerAfterColon(line) == PySliceFrom(line, Find(line, <<":">>) + 1)

\* get_device_ver_info: split the path by '/' and take only the filename
VerFileName(path) ==
    LET path_items == Split(path, "/")
    IN  path_items[Len(path_items) - 1 + 1]

\* get_device_ver_info: the image name
VerImage(output) == VerFileName(VerAfterColon(VerLine(output)))

\* VerPeNpe without the lower(): a case-sensitive search
VerPeNpe_CaseSensitive(image) ==
    IF Find(image, S_NPE) # -1 THEN S_NPE_UP ELSE S_PE

\* get_device_ver_info: check if NPE
VerPeNpe(image) ==
    IF Find(Lower(image), S_NPE) # -1 THEN S_NPE_UP ELSE S_PE

\* get_device_ver_info: the value returned when no exception is raised
VerResult(output) ==
    LET image == VerImage(output)
    IN  image \o S_SEP \o VerPeNpe(image)

\* CdpRun testing find(...) for falsity (0) instead of for absence (< 0)
CdpRun_Truthy(output) ==
    IF Find(output, S_CDP_NOT_ENABLED) # 0 THEN S_ON ELSE S_OFF

\* get_device_cdp_info: "ON" unless the output says CDP is not enabled
CdpRun(output) ==
    IF Find(output, S_CDP_NOT_ENABLED) < 0 THEN S_ON ELSE S_OFF

\* CdpNeighbours without the initial decrement for the header line
CdpNeighbours_NoDecrement(output) ==
    LET o == PySlice(output, Find(output, S_DEVICE_ID), Len(output))
        lines == SplitLines(o)
    IN  Cardinality({k \in 1..Len(lines) : ~StartsWith(lines[k], <<" ">>)})

\* get_device_cdp_info: the neighbour counter after the loop over the lines
CdpNeighbours(output) ==
    LET o == PySlice(output, Find(output, S_DEVICE_ID), Len(output))
        lines == SplitLines(o)
    IN  0 - 1 + Cardinality({k \in 1..Len(lines) : ~StartsWith(lines[k], <<" ">>)})

\* get_device_cdp_info: the returned text
CdpResult(cdp_run, cdp_neighbours) ==
    S_CDP_IS \o cdp_run \o
    (IF cdp_run = S_ON THEN S_COMMA_SP \o Str(cdp_neighbours) \o S_PEERS ELSE <<>>)

\* NtpUnreachable testing find(...) for truth: -1 (absent) counts as found
NtpUnreachable_Truthy(output) == Find(output, S_RATE0) # 0

\* getset_device_ntp_info: the ping output reports a 0% success rate
NtpUnreachable(output) == Find(output, S_RATE0) # -1

\* getset_device_ntp_info: the prefix chosen after the ping
NtpStatusPrefix(output) == IF NtpUnreachable(output) THEN S_NOT_REACH ELSE <<>>

\* getset_device_ntp_info: the returned text
NtpResult(ntp_status, output) ==
    IF Find(output, S_UNSYNC) # -1
    THEN ntp_status \o S_NOT_SYNC
    ELSE ntp_status \o S_SYNC

(***************************************************************************)
(* Inputs: the rows of the device file and what the devices print.         *)
(***************************************************************************)
Hostnames == {<<"R","1">>, <<"R","2">>}

NtpServers == {<<"t","1">>, <<"t","2">>}

\* a row of the device file; the fields the program's control flow reads
DeviceRecords == [hostname : Hostnames, ntp : NtpServers]

RowsUpTo(n) == UNION {[1..k -> DeviceRecords] : k \in 0..n}

\* text joined with a separator
RECURSIVE Join(_, _)
Join(ss, sep) ==
    IF ss = <<>> THEN <<>>
    ELSE IF Len(ss) = 1 THEN ss[1]
    ELSE ss[1] \o sep \o Join(Tail(ss), sep)

\* an image path: pieces separated by ':' or '/'
RECURSIVE JoinPath(_, _)
JoinPath(parts, seps) ==
    IF Len(parts) = 1 THEN parts[1]
    ELSE parts[1] \o <<seps[1]>> \o JoinPath(Tail(parts), Tail(seps))

PathPieces == {<<>>, <<"c","9">>, <<"x","N","p","E",".","1">>}

\* a 'sh ver' output with a marker line, described by how it was built
VerCase(pre, quoted, parts, seps, bin, nl) ==
    [text |-> pre \o S_MARKER \o <<" ">>
              \o (IF quoted THEN <<"\"">> ELSE <<>>)
              \o JoinPath(parts, seps)
              \o (IF bin THEN <<".","b","i","n">> ELSE <<>>)
              \o (IF quoted THEN <<"\"">> ELSE <<>>)
              \o (IF nl THEN <<"\n","u","p">> ELSE <<>>),
     parts |-> parts, seps |-> seps, bin |-> bin, quoted |-> quoted, nl |-> nl]

VerCases ==
    {VerCase(<<"I","O","S","\n">>, q, parts, seps, bin, nl) :
        q \in BOOLEAN, bin \in BOOLEAN, nl \in BOOLEAN,
        <<parts, seps>> \in UNION {[1..k -> PathPieces] \X [1..(k - 1) -> {":", "/"}]
                                    : k \in 1..MaxPathParts}}

HeaderLine == S_DEVICE_ID \o <<" ","I","f">>

NeiLineKinds == {<<"R","2"," ","G","1">>, <<" ","G","2">>, <<>>}

\* a 'sh cdp nei' output with a header line, described by how it was built:
\* every line ends with a line break, the last one only if trail
NeiCase(pre, lines, trail) ==
    [text |-> pre \o Join(<<HeaderLine>> \o lines, <<"\n">>)
              \o (IF trail THEN <<"\n">> ELSE <<>>),
     header |-> TRUE, lines |-> lines]

NeiCases ==
    {NeiCase(pre, lines, trail) :
        pre \in {<<>>, <<"C",":"," ","R","\n">>, <<" ">>},
        <<lines, trail>> \in
            {lt \in (UNION {[1..k -> NeiLineKinds] : k \in 0..MaxNeiLines}) \X BOOLEAN :
                lt[2] \/ lt[1] = <<>> \/ lt[1][Len(lt[1])] # <<>>}}

ShRunText == <<"h","o","s","t","n","a","m","e"," ","R","\n","e","n","d","\n">>

ShInvText ==
    <<"N","A","M","E",":"," ","\"","c","\"",","," ","D","E","S","C","R","\n">>
    \o S_PID \o <<" ","W","S","-","C"," ",","," ","V","I","D",":"," ","V","0","4">>

CdpOnText == <<"G","l","o","b","a","l"," ","C","D","P","\n">>

CdpOffText == <<"%"," ">> \o S_CDP_NOT_ENABLED

PingFailText == <<".",".",".","\n">> \o S_RATE0 \o <<" ","p","e","r","c","e","n","t">>

PingOkText ==
    <<"!","!","!","\n","S","u","c","c","e","s","s"," ","r","a","t","e"," ","i","s"," ","1","0","0">>

UnsyncText == S_UNSYNC \o <<","," ","s","t","r","a","t","u","m"," ","1","6">>

SyncText ==
    <<"C","l","o","c","k"," ","i","s"," ","s","y","n","c","h","r","o","n","i","z","e","d">>

DefaultVer ==
    VerCase(<<>>, TRUE, <<<<"c","9">>, <<"c","9">>>>, <<":">>, TRUE, TRUE)

DefaultNei ==
    NeiCase(<<>>, <<<<"R","2"," ","G","1">>, <<" ","G","2">>>>, TRUE)

\* what a device prints for each command, in the batch specification
BatchCli ==
    [run : {ShRunText}, inv : {ShInvText}, ver : {DefaultVer},
     cdp : {CdpOnText, CdpOffText}, nei : {DefaultNei},
     ping : {PingOkText, PingFailText}, ntpst : {UnsyncText, SyncText}]

\* ... with the 'sh ver' output ranging over the enumerated marker lines
VerCli ==
    [run : {ShRunText}, inv : {ShInvText}, ver : VerCases,
     cdp : {CdpOnText}, nei : {DefaultNei},
     ping : {PingOkText}, ntpst : {SyncText}]

\* ... with the 'sh cdp nei' output ranging over the enumerated tables
CdpCli ==
    [run : {ShRunText}, inv : {ShInvText}, ver : {DefaultVer},
     cdp : {CdpOnText}, nei : NeiCases,
     ping : {PingOkText}, ntpst : {SyncText}]

\* a device file with a duplicated hostname, for the parsing specifications
TwoRows ==
    <<[hostname |-> <<"R","1">>, ntp |-> <<"t","1">>],
      [hostname |-> <<"R","1">>, ntp |-> <<"t","2">>]>>

(***************************************************************************)
(* State.                                                                  *)
(***************************************************************************)
VARIABLES
    rows,             \* the rows of the device file, in file order
    cli,              \* what a device prints for each command
    row_i,            \* get_devices_from_file: rows consumed so far
    device_list,      \* get_devices_from_file / main: the device list
    console,          \* everything printed so far
    pc,               \* position of the single thread of control
    dev_i,            \* main: index of the device of the current iteration
    timestamp,        \* process_target: timestamp
    connection,       \* process_target: index in sessions, 0 when unbound
    sessions,         \* every session ConnectHandler has returned
    cmdlog,           \* every call made on a session, in order
    output,           \* create_backup: output
    backup_file_path, \* process_target: backup_file_path
    dirs,             \* directories under BACKUP_DIR_PATH
    files,            \* backup files: records of a path and its content
    device_inv,       \* process_target: device_inv
    device_ver,       \* process_target: device_ver
    device_cdp,       \* process_target: device_cdp
    device_ntp,       \* process_target: device_ntp
    cdp_run,          \* get_device_cdp_info: cdp_run
    ntp_status,       \* getset_device_ntp_info: ntp_status
    exc,              \* the exception that ended the program, if any
    failed_at         \* the device and step at which a call raised

vars ==
    <<rows, cli, row_i, device_list, console, pc, dev_i, timestamp,
      connection, sessions, cmdlog, output, backup_file_path, dirs, files,
      device_inv, device_ver, device_cdp, device_ntp, cdp_run, ntp_status,
      exc, failed_at>>

\* a local that has not been assigned
None == <<"None">>

NoFailure == [dev |-> 0, step |-> "none"]

\* the device of the current iteration of main's loop
device == device_list[dev_i]

\* the state when main starts, the backup root holding the directories of
\* one of dirsets
InitState(rowsets, clis, dirsets) ==
    /\ rows \in rowsets
    /\ cli \in clis
    /\ row_i = 0
    /\ device_list = <<>>
    /\ console = <<>>
    /\ pc = "load"
    /\ dev_i = 0
    /\ timestamp = 0
    /\ connection = 0
    /\ sessions = <<>>
    /\ cmdlog = <<>>
    /\ output = None
    /\ backup_file_path = None
    /\ dirs \in dirsets
    /\ files = {}
    /\ device_inv = None
    /\ device_ver = None
    /\ device_cdp = None
    /\ device_ntp = None
    /\ cdp_run = S_OFF
    /\ ntp_status = <<>>
    /\ exc = "none"
    /\ failed_at = NoFailure

\* ... with an empty backup root
InitWith(rowsets, clis) == InitState(rowsets, clis, {{}})

Init == InitWith(RowsUpTo(MaxRows), BatchCli)

(***************************************************************************)
(* get_devices_from_file                                                   *)
(***************************************************************************)
\* DupMatches comparing whole rows instead of hostnames
DupMatches_WholeRow(dl, row) == {k \in 1..Len(dl) : dl[k] = row}

\* the accepted devices whose hostname equals the row's (inner for loop)
DupMatches(dl, row) == {k \in 1..Len(dl) : dl[k].hostname = row.hostname}

\* one iteration of the loop over the rows
LoadRow ==
    /\ pc = "load"
    /\ row_i < Len(rows)
    /\ LET row == rows[row_i + 1]
           n == Cardinality(DupMatches(device_list, row))
       IN  /\ console' = console
                 \o [k \in 1..n |-> [kind |-> "duplicated", hostname |-> row.hostname]]
                 \o (IF n = 0
                     THEN <<[kind |-> "add", hostname |-> row.hostname]>>
                     ELSE <<>>)
           /\ device_list' = IF n = 0 THEN Append(device_list, row) ELSE device_list
    /\ row_i' = row_i + 1
    /\ UNCHANGED <<rows, cli, pc, dev_i, timestamp, connection, sessions,
                   cmdlog, output, backup_file_path, dirs, files, device_inv,
                   device_ver, device_cdp, device_ntp, cdp_run, ntp_status, exc,
                   failed_at>>

\* return device_list, to main
LoadReturn ==
    /\ pc = "load"
    /\ row_i = Len(rows)
    /\ pc' = "loop"
    /\ UNCHANGED <<rows, cli, row_i, device_list, console, dev_i, timestamp,
                   connection, sessions, cmdlog, output, backup_file_path, dirs,
                   files, device_inv, device_ver, device_cdp, device_ntp, cdp_run,
                   ntp_status, exc, failed_at>>

(***************************************************************************)
(* Calls on a session, and exceptions.                                     *)
(***************************************************************************)
\* the log after a call on the current session
Logged(op, text, ok) ==
    Append(cmdlog, [conn |-> connection, op |-> op, text |-> text, ok |-> ok])

\* what 'except Error:' makes of an exception raised in its try block: the
\* module binds no name Error, so evaluating the clause raises NameError
ExceptError(e) == "NameError"

\* the steps that run inside a try block
TrySteps ==
    {"sh_run", "backup_write", "sh_inv", "sh_ver", "sh_cdp", "sh_cdp_nei",
     "ping", "ntp_config", "ntp_status"}

\* Raise with a handler in process_target that swallows e and goes on
Raise_Swallowed(e) ==
    /\ exc' = exc
    /\ failed_at' = [dev |-> dev_i, step |-> pc]
    /\ pc' = "term_len"

\* an exception e raised at the current step: nothing in process_target or
\* main catches it, so it ends the program
Raise(e) ==
    /\ exc' = IF pc \in TrySteps THEN ExceptError(e) ELSE e
    /\ failed_at' = [dev |-> dev_i, step |-> pc]
    /\ pc' = "crashed"

(***************************************************************************)
(* main and process_target                                                 *)
(***************************************************************************)
\* variables no step of process_target changes
loaded == <<rows, cli, row_i, device_list>>

\* the fact results and the extractors' locals
facts == <<device_inv, device_ver, device_cdp, device_ntp, cdp_run, ntp_status>>

\* the backup writer's variables
backup == <<output, backup_file_path, dirs, files>>

\* the values datetime.now() can format: the wall clock is not monotonic
Timestamps == 0..MaxClock

\* main: the for loop takes the next device; process_target takes the timestamp
ProcessTargetStart ==
    /\ pc = "loop"
    /\ dev_i < Len(device_list)
    /\ dev_i' = dev_i + 1
    /\ timestamp' \in Timestamps
    /\ connection' = 0
    /\ output' = None
    /\ backup_file_path' = None
    /\ device_inv' = None
    /\ device_ver' = None
    /\ device_cdp' = None
    /\ device_ntp' = None
    /\ pc' = "connect"
    /\ UNCHANGED <<loaded, console, sessions, cmdlog, dirs, files, cdp_run,
                   ntp_status, exc, failed_at>>

\* main: the for loop is exhausted
MainReturn ==
    /\ pc = "loop"
    /\ dev_i = Len(device_list)
    /\ pc' = "done"
    /\ UNCHANGED <<loaded, console, dev_i, timestamp, connection, sessions, cmdlog,
                   backup, facts, exc, failed_at>>

\* connect_to_device: ConnectHandler returns a session
Connect ==
    /\ pc = "connect"
    /\ sessions' = Append(sessions,
           [hostname |-> device.hostname, state |-> "Connected", disconnects |-> 0])
    /\ connection' = Len(sessions) + 1
    /\ pc' = "enable"
    /\ UNCHANGED <<loaded, console, dev_i, timestamp, cmdlog, backup, facts, exc,
                   failed_at>>

\* connect_to_device: ConnectHandler raises (timeout, authentication)
ConnectFails ==
    /\ pc = "connect"
    /\ Raise("ConnectError")
    /\ UNCHANGED <<loaded, console, dev_i, timestamp, connection, sessions, cmdlog,
                   backup, facts>>

\* connection.enable()
Enable ==
    /\ pc = "enable"
    /\ sessions' = [sessions EXCEPT ![connection].state = "Privileged"]
    /\ cmdlog' = Logged("enable", <<>>, TRUE)
    /\ pc' = "term_len"
    /\ UNCHANGED <<loaded, console, dev_i, timestamp, connection, backup, facts,
                   exc, failed_at>>

\* connection.enable() raises
EnableFails ==
    /\ pc = "enable"
    /\ cmdlog' = Logged("enable", <<>>, FALSE)
    /\ Raise("EnableError")
    /\ UNCHANGED <<loaded, console, dev_i, timestamp, connection, sessions, backup,
                   facts>>

\* connection.send_command("terminal len 0"); time.sleep(1)
TermLen ==
    /\ pc = "term_len"
    /\ cmdlog' = Logged("send_command", CMD_TERM_LEN, TRUE)
    /\ pc' = "term_width"
    /\ UNCHANGED <<loaded, console, dev_i, timestamp, connection, sessions, backup,
                   facts, exc, failed_at>>

\* connection.send_command("terminal width 511"); time.sleep(1)
TermWidth ==
    /\ pc = "term_width"
    /\ cmdlog' = Logged("send_command", CMD_TERM_WIDTH, TRUE)
    /\ pc' = "backup_path"
    /\ UNCHANGED <<loaded, console, dev_i, timestamp, connection, sessions, backup,
                   facts, exc, failed_at>>

\* the command each send_command step sends
CommandAt(step) ==
    CASE step = "term_len" -> CMD_TERM_LEN
      [] step = "term_width" -> CMD_TERM_WIDTH
      [] step = "sh_run" -> CMD_SH_RUN
      [] step = "sh_inv" -> CMD_SH_INV
      [] step = "sh_ver" -> CMD_SH_VER
      [] step = "sh_cdp" -> CMD_SH_CDP
      [] step = "sh_cdp_nei" -> CMD_SH_CDP_NEI
      [] step = "ping" -> CMD_PING \o device.ntp
      [] step = "ntp_status" -> CMD_NTP_STATUS

CommandSteps ==
    {"term_len", "term_width", "sh_run", "sh_inv", "sh_ver", "sh_cdp",
     "sh_cdp_nei", "ping", "ntp_status"}

\* connection.send_command(...) raises (read timeout, closed socket)
SendCommandFails ==
    /\ pc \in CommandSteps
    /\ cmdlog' = Logged("send_command", CommandAt(pc), FALSE)
    /\ Raise("CommandError")
    /\ UNCHANGED <<loaded, console, dev_i, timestamp, connection, sessions, backup,
                   facts>>

(***************************************************************************)
(* get_backup_file_path and create_backup                                  *)
(***************************************************************************)
\* os.path.join(BACKUP_DIR_PATH, hostname), as its components
BackupDir(hostname) == <<BACKUP_DIR_PATH, hostname>>

\* the text strftime gives for a clock reading
TimestampText(t) == Str(t)

\* BackupFilePath joining the file name to the backup root directly
BackupFilePath_NoDir(hostname, t) ==
    <<BACKUP_DIR_PATH,
      hostname \o <<"-">> \o TimestampText(t) \o <<".","t","x","t">>>>

\* os.path.join(BACKUP_DIR_PATH, hostname, "{}-{}.txt".format(hostname, timestamp))
BackupFilePath(hostname, t) ==
    <<BACKUP_DIR_PATH, hostname,
      hostname \o <<"-">> \o TimestampText(t) \o <<".","t","x","t">>>>

\* get_backup_file_path: creates the hostname directory if absent
GetBackupFilePath ==
    /\ pc = "backup_path"
    /\ dirs' = dirs \cup {BackupDir(device.hostname)}
    /\ backup_file_path' = BackupFilePath(device.hostname, timestamp)
    /\ pc' = "sh_run"
    /\ UNCHANGED <<loaded, console, dev_i, timestamp, connection, sessions, cmdlog,
                   output, files, facts, exc, failed_at>>

\* get_backup_file_path: os.makedirs raises
MakedirsFails ==
    /\ pc = "backup_path"
    /\ BackupDir(device.hostname) \notin dirs
    /\ Raise("OSError")
    /\ UNCHANGED <<loaded, console, dev_i, timestamp, connection, sessions, cmdlog,
                   backup, facts>>

\* create_backup: output = connection.send_command("sh run")
BackupShRun ==
    /\ pc = "sh_run"
    /\ cmdlog' = Logged("send_command", CMD_SH_RUN, TRUE)
    /\ output' = cli.run
    /\ pc' = "backup_write"
    /\ UNCHANGED <<loaded, console, dev_i, timestamp, connection, sessions,
                   backup_file_path, dirs, files, facts, exc, failed_at>>

\* Written storing the stripped text instead of the text as received
Written_Stripped(path, content) ==
    {f \in files : f.path # path} \cup {[path |-> path, content |-> Strip(content)]}

\* the files after open(path, 'w') and write(content)
Written(path, content) ==
    {f \in files : f.path # path} \cup {[path |-> path, content |-> content]}

\* create_backup: the file is opened for writing and the output written
BackupWrite ==
    /\ pc = "backup_write"
    /\ files' = Written(backup_file_path, output)
    /\ pc' = "sh_inv"
    /\ UNCHANGED <<loaded, console, dev_i, timestamp, connection, sessions, cmdlog,
                   output, backup_file_path, dirs, facts, exc, failed_at>>

\* create_backup: open raises, or write raises after open truncated the file
BackupWriteFails ==
    /\ pc = "backup_write"
    /\ \E opened \in BOOLEAN :
           files' = IF opened THEN Written(backup_file_path, <<>>) ELSE files
    /\ Raise("OSError")
    /\ UNCHANGED <<loaded, console, dev_i, timestamp, connection, sessions, cmdlog,
                   output, backup_file_path, dirs, facts>>

(***************************************************************************)
(* The fact extractors                                                     *)
(***************************************************************************)
GetDeviceInvInfo ==
    /\ pc = "sh_inv"
    /\ cmdlog' = Logged("send_command", CMD_SH_INV, TRUE)
    /\ device_inv' = InvParse(cli.inv)
    /\ pc' = "sh_ver"
    /\ UNCHANGED <<loaded, console, dev_i, timestamp, connection, sessions, backup,
                   device_ver, device_cdp, device_ntp, cdp_run, ntp_status, exc,
                   failed_at>>

GetDeviceVerInfo ==
    /\ pc = "sh_ver"
    /\ cmdlog' = Logged("send_command", CMD_SH_VER, TRUE)
    /\ device_ver' = VerResult(cli.ver.text)
    /\ pc' = "sh_cdp"
    /\ UNCHANGED <<loaded, console, dev_i, timestamp, connection, sessions, backup,
                   device_inv, device_cdp, device_ntp, cdp_run, ntp_status, exc,
                   failed_at>>

\* CdpShCdp without the 'if cdp_run == "ON"' test: always queries neighbours
CdpShCdp_AlwaysNei ==
    /\ pc = "sh_cdp"
    /\ cmdlog' = Logged("send_command", CMD_SH_CDP, TRUE)
    /\ cdp_run' = CdpRun(cli.cdp)
    /\ pc' = "sh_cdp_nei"
    /\ UNCHANGED <<loaded, console, dev_i, timestamp, connection, sessions, backup,
                   device_inv, device_ver, device_cdp, device_ntp, ntp_status, exc,
                   failed_at>>

\* get_device_cdp_info: 'sh cdp'; returns "CDP is OFF" when CDP is not running
CdpShCdp ==
    /\ pc = "sh_cdp"
    /\ cmdlog' = Logged("send_command", CMD_SH_CDP, TRUE)
    /\ cdp_run' = CdpRun(cli.cdp)
    /\ IF cdp_run' = S_ON
       THEN /\ pc' = "sh_cdp_nei"
            /\ device_cdp' = device_cdp
       ELSE /\ pc' = "ping"
            /\ device_cdp' = CdpResult(cdp_run', 0)
    /\ UNCHANGED <<loaded, console, dev_i, timestamp, connection, sessions, backup,
                   device_inv, device_ver, device_ntp, ntp_status, exc, failed_at>>

\* get_device_cdp_info: 'sh cdp nei' and the count of its lines
CdpShCdpNei ==
    /\ pc = "sh_cdp_nei"
    /\ cmdlog' = Logged("send_command", CMD_SH_CDP_NEI, TRUE)
    /\ device_cdp' = CdpResult(cdp_run, CdpNeighbours(cli.nei.text))
    /\ pc' = "ping"
    /\ UNCHANGED <<loaded, console, dev_i, timestamp, connection, sessions, backup,
                   device_inv, device_ver, device_ntp, cdp_run, ntp_status, exc,
                   failed_at>>

\* getset_device_ntp_info: the ping of the NTP server
NtpPing ==
    /\ pc = "ping"
    /\ cmdlog' = Logged("send_command", CMD_PING \o device.ntp, TRUE)
    /\ ntp_status' = NtpStatusPrefix(cli.ping)
    /\ pc' = IF NtpUnreachable(cli.ping) THEN "ntp_status" ELSE "ntp_config"
    /\ UNCHANGED <<loaded, console, dev_i, timestamp, connection, sessions, backup,
                   device_inv, device_ver, device_cdp, device_ntp, cdp_run, exc,
                   failed_at>>

\* set_timezone_gmt0: the configuration command of the call that
\* process_target has commented out
CMD_TIMEZONE ==
    <<"c","l","o","c","k"," ","t","i","m","e","z","o","n","e"," ","G","M","T"," ","0"," ","0">>

\* NtpConfig preceded by the timezone command (the call not commented out)
NtpConfig_WithTimezone ==
    /\ pc = "ntp_config"
    /\ cmdlog' = Append(Logged("send_config_set", CMD_TIMEZONE, TRUE),
                        [conn |-> connection, op |-> "send_config_set",
                         text |-> CMD_NTP_SERVER \o device.ntp, ok |-> TRUE])
    /\ pc' = "ntp_status"
    /\ UNCHANGED <<loaded, console, dev_i, timestamp, connection, sessions, backup,
                   facts, exc, failed_at>>

\* getset_device_ntp_info: set reachable NTP server
NtpConfig ==
    /\ pc = "ntp_config"
    /\ cmdlog' = Logged("send_config_set", CMD_NTP_SERVER \o device.ntp, TRUE)
    /\ pc' = "ntp_status"
    /\ UNCHANGED <<loaded, console, dev_i, timestamp, connection, sessions, backup,
                   facts, exc, failed_at>>

\* getset_device_ntp_info: send_config_set raises
NtpConfigFails ==
    /\ pc = "ntp_config"
    /\ cmdlog' = Logged("send_config_set", CMD_NTP_SERVER \o device.ntp, FALSE)
    /\ Raise("ConfigError")
    /\ UNCHANGED <<loaded, console, dev_i, timestamp, connection, sessions, backup,
                   facts>>

\* getset_device_ntp_info: the synchronization query and the returned text
NtpStatus ==
    /\ pc = "ntp_status"
    /\ cmdlog' = Logged("send_command", CMD_NTP_STATUS, TRUE)
    /\ device_ntp' = NtpResult(ntp_status, cli.ntpst)
    /\ pc' = "print"
    /\ UNCHANGED <<loaded, console, dev_i, timestamp, connection, sessions, backup,
                   device_inv, device_ver, device_cdp, cdp_run, ntp_status, exc,
                   failed_at>>

(***************************************************************************)
(* The report line and the disconnect                                      *)
(***************************************************************************)
ReportLine(hostname, inv, ver, cdp, ntp) ==
    hostname \o S_SEP \o inv \o S_SEP \o ver \o S_SEP \o cdp \o S_SEP \o ntp

\* print out final result
PrintReport ==
    /\ pc = "print"
    /\ console' = Append(console,
           [kind |-> "report", hostname |-> device.hostname,
            line |-> ReportLine(device.hostname, device_inv, device_ver,
                                device_cdp, device_ntp)])
    /\ pc' = "disconnect"
    /\ UNCHANGED <<loaded, dev_i, timestamp, connection, sessions, cmdlog, backup,
                   facts, exc, failed_at>>

\* Disconnect without the call of connection.disconnect()
Disconnect_NoClose ==
    /\ pc = "disconnect"
    /\ pc' = "loop"
    /\ UNCHANGED <<loaded, console, dev_i, timestamp, connection, sessions, cmdlog,
                   backup, facts, exc, failed_at>>

\* disconnect_from_device, then back to main's loop
Disconnect ==
    /\ pc = "disconnect"
    /\ sessions' = [sessions EXCEPT ![connection].state = "Closed",
                                    ![connection].disconnects = @ + 1]
    /\ cmdlog' = Logged("disconnect", <<>>, TRUE)
    /\ pc' = "loop"
    /\ UNCHANGED <<loaded, console, dev_i, timestamp, connection, backup, facts,
                   exc, failed_at>>

Next ==
    \/ LoadRow
    \/ LoadReturn
    \/ ProcessTargetStart
    \/ MainReturn
    \/ Connect
    \/ ConnectFails
    \/ Enable
    \/ EnableFails
    \/ TermLen
    \/ TermWidth
    \/ SendCommandFails
    \/ GetBackupFilePath
    \/ MakedirsFails
    \/ BackupShRun
    \/ BackupWrite
    \/ BackupWriteFails
    \/ GetDeviceInvInfo
    \/ GetDeviceVerInfo
    \/ CdpShCdp
    \/ CdpShCdpNei
    \/ NtpPing
    \/ NtpConfig
    \/ NtpConfigFails
    \/ NtpStatus
    \/ PrintReport
    \/ Disconnect

\* the batch: every device file of up to MaxRows rows
Spec == Init /\ [][Next]_vars

InitVer == InitWith({TwoRows}, VerCli)

\* one device, its 'sh ver' output ranging over the enumerated marker lines
SpecVer == InitVer /\ [][Next]_vars

InitCdp == InitWith({TwoRows}, CdpCli)

\* one device, its 'sh cdp nei' output ranging over the enumerated tables
SpecCdp == InitCdp /\ [][Next]_vars

\* the program has ended (normally or on an uncaught exception)
Ended == pc \in {"done", "crashed"}

TypeOK ==
    /\ pc \in {"load", "loop", "connect", "enable", "term_len", "term_width",
               "backup_path", "sh_run", "backup_write", "sh_inv", "sh_ver",
               "sh_cdp", "sh_cdp_nei", "ping", "ntp_config", "ntp_status",
               "print", "disconnect", "done", "crashed"}
    /\ dev_i \in 0..Len(device_list)
    /\ connection \in 0..Len(sessions)
    /\ timestamp \in Timestamps

(***************************************************************************)
(* Vocabulary of the properties.                                           *)
(***************************************************************************)
\* sub occurs in s
Contains(s, sub) ==
    \E p \in 1..(Len(s) - Len(sub) + 1) : SubSeq(s, p, p + Len(sub) - 1) = sub

\* s ends with suf
EndsWith(s, suf) ==
    /\ Len(s) >= Len(suf)
    /\ SubSeq(s, Len(s) - Len(suf) + 1, Len(s)) = suf

\* the positions in the log of the calls on session c that sent text
Calls(c, op, text) ==
    {i \in 1..Len(cmdlog) :
        cmdlog[i].conn = c /\ cmdlog[i].op = op /\ cmdlog[i].text = text}

\* the positions in the log of the configuration commands sent on session c
Configs(c) ==
    {i \in 1..Len(cmdlog) : cmdlog[i].conn = c /\ cmdlog[i].op = "send_config_set"}

\* the accepted device named h
DeviceOf(h) == CHOOSE k \in 1..Len(device_list) : device_list[k].hostname = h

\* the report lines printed for the device named h
ReportsOf(h) ==
    {i \in 1..Len(console) : console[i].kind = "report" /\ console[i].hostname = h}

\* the rows of the device file that carry hostname h
RowsOf(h) == {i \in 1..Len(rows) : rows[i].hostname = h}

\* the first row of the device file that carries hostname h
FirstRow(h) == CHOOSE i \in RowsOf(h) : \A j \in RowsOf(h) : i <= j

ExtractorSteps ==
    {"sh_inv", "sh_ver", "sh_cdp", "sh_cdp_nei", "ping", "ntp_config", "ntp_status"}

\* the sentinel the extractor that runs a step documents for a failure
SentinelOf(step) ==
    CASE step = "sh_inv" -> S_INV_FAILED
      [] step = "sh_ver" -> S_VER_FAILED
      [] step = "sh_cdp" -> S_CDP_RUN_FAILED
      [] step = "sh_cdp_nei" -> S_CDP_NEI_FAILED
      [] OTHER -> S_NTP_FAILED

(***************************************************************************)
(* Properties.                                                             *)
(***************************************************************************)
\* C1: when the program has ended, every session that was opened has had
\* its disconnect invoked exactly once, whichever step failed.
C1_EverySessionDisconnectedOnce ==
    Ended => \A c \in 1..Len(sessions) : sessions[c].disconnects = 1

\* C2: a failure while processing one device never aborts the batch: when
\* the program has ended, process_target has been started for every record
\* of the deduplicated device list.
C2_BatchNeverAborted ==
    Ended => dev_i = Len(device_list)

\* C3: when the command of a fact extractor fails, nothing propagates: the
\* program goes on, and once it has ended the report line of that device
\* has been printed with the extractor's sentinel as the failed field.
C3_ExtractorFailureContained ==
    failed_at.step \in ExtractorSteps =>
        /\ exc = "none"
        /\ Ended =>
              \E i \in ReportsOf(device_list[failed_at.dev].hostname) :
                  Contains(console[i].line,
                           S_SEP \o SentinelOf(failed_at.step))

\* C4: when 'sh run' or the write of the backup file fails, create_backup
\* returns without raising, and once the program has ended the report line
\* of that device has been printed and its session disconnected.
C4_BackupFailureContained ==
    failed_at.step \in {"sh_run", "backup_write"} =>
        /\ exc = "none"
        /\ Ended =>
              /\ ReportsOf(device_list[failed_at.dev].hostname) # {}
              /\ sessions[failed_at.dev].disconnects = 1

\* C5: the list get_devices_from_file returns holds each hostname of the
\* file exactly once, as the record of its first row, in first-seen order,
\* and for a hostname carried by k rows exactly k-1 duplicate notices were
\* printed.
C5_Dedup ==
    pc # "load" =>
        /\ \A h \in Hostnames :
              Cardinality({k \in 1..Len(device_list) : device_list[k].hostname = h})
                  = (IF RowsOf(h) = {} THEN 0 ELSE 1)
        /\ \A k \in 1..Len(device_list) :
              device_list[k] = rows[FirstRow(device_list[k].hostname)]
        /\ \A k, l \in 1..Len(device_list) :
              k < l => FirstRow(device_list[k].hostname)
                           < FirstRow(device_list[l].hostname)
        /\ \A h \in Hostnames :
              RowsOf(h) # {} =>
                  Cardinality({i \in 1..Len(console) :
                                  /\ console[i].kind = "duplicated"
                                  /\ console[i].hostname = h})
                      = Cardinality(RowsOf(h)) - 1

\* C5 witness: the loader has returned a list of two devices from a file of
\* three rows, two of which share a hostname and differ in another field.
C5_Witness ==
    /\ pc = "loop"
    /\ Len(rows) = 3
    /\ rows[1].hostname = rows[3].hostname
    /\ rows[1] # rows[3]
    /\ Len(device_list) = 2

\* C6: on every session, a configuration command is sent at most once, is
\* "ntp server <ntp>", follows a successful ping whose output lacks
\* "Success rate is 0" and precedes the sync-status query; none is sent
\* when the ping output has "Success rate is 0"; and when the extractor has
\* returned, the sync-status query was sent exactly once and the result is
\* the reachability prefix followed by "Clock is not sync" iff the query's
\* output contains "Clock is unsynchronized", else by "Clock is Sync".
C6_NtpGetSet ==
    \A c \in 1..Len(sessions) :
        LET ntp == device_list[DeviceOf(sessions[c].hostname)].ntp
            pings == Calls(c, "send_command", CMD_PING \o ntp)
            queries == Calls(c, "send_command", CMD_NTP_STATUS)
            rate0 == Contains(cli.ping, S_RATE0)
            returned == \/ sessions[c].state = "Closed"
                        \/ (c = connection /\ device_ntp # None)
        IN  /\ Cardinality(Configs(c)) <= 1
            /\ Cardinality(queries) <= 1
            /\ rate0 => Configs(c) = {}
            /\ \A i \in Configs(c) :
                  /\ cmdlog[i].text = CMD_NTP_SERVER \o ntp
                  /\ \E j \in pings : j < i /\ cmdlog[j].ok
                  /\ \A k \in queries : i < k
            /\ \A k \in queries :
                  /\ \E j \in pings : j < k
                  /\ ~rate0 => \E i \in Configs(c) : i < k
            /\ returned => Cardinality(queries) = 1
            /\ (c = connection /\ device_ntp # None) =>
                  /\ rate0 => StartsWith(device_ntp, S_NOT_REACH)
                  /\ ~rate0 => Cardinality(Configs(c)) = 1
                  /\ device_ntp =
                        (IF rate0 THEN S_NOT_REACH ELSE <<>>)
                        \o (IF Contains(cli.ntpst, S_UNSYNC)
                            THEN S_NOT_SYNC ELSE S_SYNC)
                  /\ EndsWith(device_ntp, S_NOT_SYNC)
                        <=> Contains(cli.ntpst, S_UNSYNC)

\* C6 witness: the extractor has returned "NTP server not reachable, Clock
\* is not sync" for the second device of the batch.
C6_Witness ==
    /\ pc = "print"
    /\ dev_i = 2
    /\ Contains(cli.ping, S_RATE0)
    /\ device_ntp = S_NOT_REACH \o S_NOT_SYNC

\* C7: when the 'sh cdp' output contains "CDP is not enabled" the neighbour
\* query is never sent and the result is exactly "CDP is OFF"; otherwise,
\* when the extractor has returned, the neighbour query was sent exactly
\* once and the result is "CDP is ON, <N> peers" for an integer N.
C7_CdpStatus ==
    \A c \in 1..Len(sessions) :
        LET queries == Calls(c, "send_command", CMD_SH_CDP_NEI)
            off == Contains(cli.cdp, S_CDP_NOT_ENABLED)
        IN  /\ Cardinality(queries) <= 1
            /\ off => queries = {}
            /\ (c = connection /\ device_cdp # None) =>
                  IF off
                  THEN device_cdp = <<"C","D","P"," ","i","s"," ","O","F","F">>
                  ELSE /\ Cardinality(queries) = 1
                       /\ \E n \in -1..(MaxNeiLines + 1) :
                             device_cdp =
                                 <<"C","D","P"," ","i","s"," ","O","N",","," ">>
                                 \o Str(n) \o <<" ","p","e","e","r","s">>

\* C7 witness: the extractor has returned "CDP is OFF" after 'sh cdp'.
C7_Witness ==
    /\ pc = "ping"
    /\ Contains(cli.cdp, S_CDP_NOT_ENABLED)
    /\ device_cdp = S_CDP_IS \o S_OFF
    /\ Calls(connection, "send_command", CMD_SH_CDP) # {}

\* the lines of a table that do not begin with a space
NonIndented(lines) ==
    {k \in 1..Len(lines) : lines[k] = <<>> \/ lines[k][1] # " "}

\* C8: when CDP is ON and the neighbour output has a header line starting
\* at "Device ID", the reported peer count is the number of non-indented
\* lines that follow the header line.
C8_PeerCount ==
    (device_cdp # None /\ cli.nei.header /\ ~Contains(cli.cdp, S_CDP_NOT_ENABLED)) =>
        device_cdp =
            <<"C","D","P"," ","i","s"," ","O","N",","," ">>
            \o Str(Cardinality(NonIndented(cli.nei.lines)))
            \o <<" ","p","e","e","r","s">>

\* C8 witness: a header followed by three non-indented neighbour lines and
\* two indented continuation lines gave "CDP is ON, 3 peers".
C8_Witness ==
    /\ pc = "ping"
    /\ Len(cli.nei.lines) = 5
    /\ Cardinality({k \in 1..5 : cli.nei.lines[k] = <<" ","G","2">>}) = 2
    /\ Cardinality({k \in 1..5 : cli.nei.lines[k] = <<"R","2"," ","G","1">>}) = 3
    /\ device_cdp = S_CDP_IS \o S_ON \o S_COMMA_SP \o <<"3">> \o S_PEERS

\* the image name in the result of get_device_ver_info
ImageName == SubSeq(device_ver, 1, Len(device_ver) - 6)

\* the marker line ends at a closing quote or at a line break
Delimited(v) == v.quoted \/ v.nl

\* the last piece of the path before which the code cuts: the piece before
\* the first ':' or, when a '/' follows that ':', before the last '/'
CutAt(seps) ==
    LET colons == {k \in 1..Len(seps) : seps[k] = ":"}
        f == IF colons = {} THEN 0
             ELSE CHOOSE k \in colons : \A j \in colons : k <= j
        slashes == {k \in (f + 1)..Len(seps) : seps[k] = "/"}
    IN  IF slashes = {} THEN f
        ELSE CHOOSE k \in slashes : \A j \in slashes : k >= j

\* the final '/'-separated segment of what follows the first ':' of a path
SegmentAfterFirstColon(v) ==
    LET n == Len(v.parts)
        l == CutAt(v.seps)
    IN  JoinPath(SubSeq(v.parts, l + 1, n), SubSeq(v.seps, l + 1, n - 1))

\* C9 as stated: when the path has a colon, the image name is what follows
\* the last colon, cut to its final path segment, and so has no ':' or '/'.
C9_AfterLastColon ==
    (device_ver # None /\ Delimited(cli.ver)
       /\ \E k \in 1..Len(cli.ver.seps) : cli.ver.seps[k] = ":") =>
        /\ ImageName = cli.ver.parts[Len(cli.ver.parts)]
        /\ ~Contains(ImageName, <<":">>)
        /\ ~Contains(ImageName, <<"/">>)

\* C9 amended: the image name is the final '/'-separated segment of what
\* follows the FIRST colon of the path (of the whole path when it has no
\* colon); it never contains '/', but keeps every later colon of that
\* segment.
C9_AfterFirstColon ==
    device_ver # None =>
        /\ ~Contains(ImageName, <<"/">>)
        /\ Delimited(cli.ver) => ImageName = SegmentAfterFirstColon(cli.ver)

\* C9 witness: a quoted path with two colons gave an image name that still
\* contains a colon.
C9_Witness ==
    /\ pc = "sh_cdp"
    /\ cli.ver.quoted
    /\ cli.ver.seps = <<":", ":">>
    /\ ImageName = <<"c","9",":","x","N","p","E",".","1">>

\* the 'sh ver' output has a quoted path of the form "<fs>:<name>.bin"
FsNameBin(v) ==
    v.quoted /\ v.bin /\ Len(v.parts) = 2 /\ v.seps = <<":">>

\* s contains "npe" in some letter case
HasNpeAnyCase(s) ==
    \E p \in 1..(Len(s) - 2) :
        s[p] \in {"n", "N"} /\ s[p + 1] \in {"p", "P"} /\ s[p + 2] \in {"e", "E"}

\* C10: for a quoted path "<fs>:<name>.bin", followed by a line break or
\* not, the result is "<name> | NPE" when <name> contains "npe" in any
\* letter case and "<name> | PE " otherwise.
C10_VersionResult ==
    (device_ver # None /\ FsNameBin(cli.ver)) =>
        device_ver =
            cli.ver.parts[2] \o <<" ","|"," ">>
            \o (IF HasNpeAnyCase(cli.ver.parts[2])
                THEN <<"N","P","E">> ELSE <<"P","E"," ">>)

\* C10 witness: "c9:xNpE.1.bin" in quotes with no line break after it gave
\* "xNpE.1 | NPE".
C10_Witness ==
    /\ pc = "sh_cdp"
    /\ FsNameBin(cli.ver)
    /\ ~cli.ver.nl
    /\ cli.ver.parts[1] = <<"c","9">>
    /\ device_ver = <<"x","N","p","E",".","1"," ","|"," ","N","P","E">>

(***************************************************************************)
(* Command output that lacks the text an extractor looks for.              *)
(***************************************************************************)
\* a 'sh inv' output without "PID:"
NoPidText ==
    <<"N","A","M","E",":"," ","c",","," ","D","E","S","C","R",":"," ","x","\n">>

\* a 'sh ver' output without "System image file is"
NoMarkerVer ==
    [text |-> <<"C","i","s","c","o"," ","I","O","S"," ","S","o","f","t","w","a","r","e",","," ","c","9"," ","V","e","r","s","i","o","n"," ","1","5","\n","u","p","\n">>,
     parts |-> <<>>, seps |-> <<>>, bin |-> FALSE, quoted |-> FALSE, nl |-> TRUE]

\* 'sh cdp nei' outputs without a "Device ID" header: empty, and a message
NoHeaderNei ==
    {[text |-> t, header |-> FALSE, lines |-> <<>>] :
        t \in {<<>>, <<"%"," ","C","D","P"," ","o","f","f","\n">>}}

\* what a device prints, with outputs that lack the expected text
ParseCli ==
    [run : {ShRunText}, inv : {ShInvText, NoPidText},
     ver : {DefaultVer, NoMarkerVer},
     cdp : {CdpOnText}, nei : {DefaultNei} \cup NoHeaderNei,
     ping : {PingOkText}, ntpst : {SyncText}]

InitParse == InitWith({TwoRows}, ParseCli)

\* one device, its outputs with and without the text the extractors expect
SpecParse == InitParse /\ [][Next]_vars

\* C11: when the 'sh inv' output has no "PID:" the inventory extractor
\* returns "DEVICE INVENTORY FAILED", and when the 'sh ver' output has no
\* "System image file is" the version extractor returns "DEVICE VERSION
\* FAILED".
C11_MissingMarkerGivesSentinel ==
    /\ (device_inv # None /\ ~Contains(cli.inv, <<"P","I","D",":">>)) =>
          device_inv = S_INV_FAILED
    /\ (device_ver # None /\ ~Contains(cli.ver.text, S_MARKER)) =>
          device_ver = S_VER_FAILED

\* C12: exactly one report line is printed for each device of the list:
\* once the program has ended each device has one; it is printed when the
\* four fact results have been produced and before the disconnect, and its
\* fields are hostname | inventory | version | cdp | ntp.
C12_OneReportLinePerDevice ==
    /\ Ended =>
          \A k \in 1..Len(device_list) :
              Cardinality(ReportsOf(device_list[k].hostname)) = 1
    /\ pc = "disconnect" =>
          /\ None \notin {device_inv, device_ver, device_cdp, device_ntp}
          /\ sessions[connection].disconnects = 0
          /\ console[Len(console)].line =
                device.hostname \o <<" ","|"," ">> \o device_inv
                \o <<" ","|"," ">> \o device_ver \o <<" ","|"," ">> \o device_cdp
                \o <<" ","|"," ">> \o device_ntp

\* the calls logged on session c, in order, as pairs of operation and text
SessionCalls(c) ==
    LET mine == SelectSeq(cmdlog, LAMBDA e : e.conn = c)
    IN  [k \in 1..Len(mine) |-> <<mine[k].op, mine[k].text>>]

\* the calls logged on session c that did not raise
FailedCalls(c) ==
    {k \in 1..Len(cmdlog) : cmdlog[k].conn = c /\ ~cmdlog[k].ok}

\* the order C13 gives for a device whose NTP server is ntp
FixedOrder(ntp) ==
    <<<<"enable", <<>>>>,
      <<"send_command", <<"t","e","r","m","i","n","a","l"," ","l","e","n"," ","0">>>>,
      <<"send_command", <<"t","e","r","m","i","n","a","l"," ","w","i","d","t","h"," ","5","1","1">>>>,
      <<"send_command", <<"s","h"," ","r","u","n">>>>,
      <<"send_command", <<"s","h"," ","i","n","v">>>>,
      <<"send_command", <<"s","h"," ","v","e","r">>>>,
      <<"send_command", <<"s","h"," ","c","d","p">>>>>>
    \o (IF Contains(cli.cdp, S_CDP_NOT_ENABLED) THEN <<>>
        ELSE <<<<"send_command", <<"s","h"," ","c","d","p"," ","n","e","i">>>>>>)
    \o <<<<"send_command", <<"p","i","n","g"," ">> \o ntp>>>>
    \o (IF Contains(cli.ping, S_RATE0) THEN <<>>
        ELSE <<<<"send_config_set", <<"n","t","p"," ","s","e","r","v","e","r"," ">> \o ntp>>>>)
    \o <<<<"send_command", CMD_NTP_STATUS>>, <<"disconnect", <<>>>>>>

\* a is an initial part of b
IsPrefix(a, b) == Len(a) <= Len(b) /\ SubSeq(b, 1, Len(a)) = a

\* C13: the calls on each device's session are an initial part of the fixed
\* order enable, 'terminal len 0', 'terminal width 511', 'sh run', 'sh inv',
\* 'sh ver', 'sh cdp', ('sh cdp nei' iff CDP is ON), ping, (NTP config iff
\* reachable), sync-status query, disconnect; every call is made on a
\* session that connect returned; only the last call on a session can have
\* failed, so nothing is sent before enable succeeded; the report line is
\* printed after the sync-status query and before the disconnect.
C13_FixedOrder ==
    /\ \A k \in 1..Len(cmdlog) : cmdlog[k].conn \in 1..Len(sessions)
    /\ \A c \in 1..Len(sessions) :
          LET calls == SessionCalls(c)
              order == FixedOrder(device_list[DeviceOf(sessions[c].hostname)].ntp)
              printed == ReportsOf(sessions[c].hostname) # {}
          IN  /\ IsPrefix(calls, order)
              /\ \A k \in FailedCalls(c) :
                    /\ k = Len(cmdlog)
                    /\ pc = "crashed"
              /\ printed => Len(calls) >= Len(order) - 1
              /\ Len(calls) = Len(order) => printed

\* C13 witness: a device with CDP ON and a reachable NTP server has been
\* processed to the end: twelve calls, the last one the disconnect.
C13_Witness ==
    /\ pc = "loop"
    /\ dev_i = 1
    /\ Len(SessionCalls(1)) = 12
    /\ SessionCalls(1)[8] = <<"send_command", CMD_SH_CDP_NEI>>
    /\ SessionCalls(1)[10][1] = "send_config_set"
    /\ SessionCalls(1)[12][1] = "disconnect"

\* the sessions that were opened and not disconnected
OpenSessions == {c \in 1..Len(sessions) : sessions[c].state # "Closed"}

\* C14: devices are processed one at a time in the order of the list: the
\* c-th session belongs to the c-th device, at most one session is open,
\* only the latest one can be open, and while process_target is not running
\* (and the program has not been ended by an exception) none is open.
C14_OneDeviceAtATime ==
    /\ Len(sessions) <= dev_i
    /\ \A c \in 1..Len(sessions) :
          /\ sessions[c].hostname = device_list[c].hostname
          /\ c < Len(sessions) => sessions[c].state = "Closed"
    /\ Cardinality(OpenSessions) <= 1
    /\ pc \in {"load", "loop", "connect", "done"} => OpenSessions = {}

\* C14 witness: the session of the second device is open and the session of
\* the first device is closed.
C14_Witness ==
    /\ Len(sessions) = 2
    /\ sessions[1].state = "Closed"
    /\ sessions[2].state = "Privileged"
    /\ pc = "sh_inv"

\* C15: when connect or enable has failed for a device, its processing has
\* stopped there: no command and no configuration command was sent on a
\* session of that device, no backup file was written under its hostname and
\* no report line was printed for it.
C15_NoWorkAfterFailedOpen ==
    failed_at.step \in {"connect", "enable"} =>
        LET h == device_list[failed_at.dev].hostname
        IN  /\ pc = "crashed"
            /\ \A k \in 1..Len(cmdlog) :
                  cmdlog[k].op \in {"send_command", "send_config_set"} =>
                      /\ cmdlog[k].conn \in 1..Len(sessions)
                      /\ sessions[cmdlog[k].conn].hostname # h
            /\ \A f \in files : f.path[2] # h
            /\ ReportsOf(h) = {}

\* C15 witness: enable has failed on the session of the second device, after
\* the first device was processed to the end.
C15_Witness ==
    /\ failed_at = [dev |-> 2, step |-> "enable"]
    /\ Len(sessions) = 2
    /\ Cardinality(files) = 1
    /\ Len(cmdlog) > 12

(***************************************************************************)
(* Runs that start with hostname directories left by earlier runs.         *)
(***************************************************************************)
FsRows ==
    {TwoRows,
     <<[hostname |-> <<"R","1">>, ntp |-> <<"t","1">>],
       [hostname |-> <<"R","2">>, ntp |-> <<"t","1">>]>>}

FsCli ==
    [run : {ShRunText}, inv : {ShInvText}, ver : {DefaultVer},
     cdp : {CdpOnText}, nei : {DefaultNei},
     ping : {PingOkText}, ntpst : {SyncText}]

InitFs == InitState(FsRows, FsCli, SUBSET {BackupDir(h) : h \in Hostnames})

\* one or two devices, any of their directories existing beforehand
SpecFs == InitFs /\ [][Next]_vars

\* C16: a call of get_backup_file_path returns
\* <backup-root>/<hostname>/<hostname>-<timestamp>.txt; it creates the
\* hostname directory when that is absent, creates nothing when it exists,
\* and changes no file; the timestamp changes only when process_target
\* starts, before the session is opened.
C16_BackupPath ==
    [][/\ (pc = "backup_path" /\ pc' = "sh_run") =>
             LET h == device.hostname
                 dir == <<BACKUP_DIR_PATH, h>>
             IN  /\ backup_file_path' =
                       <<BACKUP_DIR_PATH, h,
                         h \o <<"-">> \o TimestampText(timestamp) \o <<".","t","x","t">>>>
                 /\ dir \in dirs => dirs' = dirs
                 /\ dir \notin dirs => dirs' = dirs \cup {dir}
                 /\ files' = files
       /\ timestamp' # timestamp =>
             /\ pc = "loop"
             /\ pc' = "connect"
             /\ sessions' = sessions
             /\ cmdlog' = cmdlog
       /\ pc \notin {"backup_path"} => dirs' = dirs]_vars

\* C16 witness: get_backup_file_path has returned the path of R1 at
\* timestamp 1 while the directories of both hostnames exist.
C16_Witness ==
    /\ pc = "sh_run"
    /\ dev_i = 1
    /\ dirs = {<<BACKUP_DIR_PATH, <<"R","1">>>>, <<BACKUP_DIR_PATH, <<"R","2">>>>}
    /\ backup_file_path =
          <<BACKUP_DIR_PATH, <<"R","1">>, <<"R","1","-","1",".","t","x","t">>>>

\* C17: within one batch run a backup file, once written, is never changed
\* or removed, and a backup path is written at most once: when a file is
\* about to be written no file exists at its path, so the files of the
\* devices have pairwise distinct paths.
C17_ArtifactsWrittenOnce ==
    [][/\ files \subseteq files'
       /\ pc = "backup_write" => \A f \in files : f.path # backup_file_path
       /\ Cardinality({f.path : f \in files'}) = Cardinality(files')]_vars

\* C17 witness: two devices got the same timestamp and each has its own
\* backup file.
C17_Witness ==
    /\ pc = "sh_inv"
    /\ dev_i = 2
    /\ files =
          {[path |-> <<BACKUP_DIR_PATH, <<"R","1">>, <<"R","1","-","0",".","t","x","t">>>>,
            content |-> ShRunText],
           [path |-> <<BACKUP_DIR_PATH, <<"R","2">>, <<"R","2","-","0",".","t","x","t">>>>,
            content |-> ShRunText]}

\* C18: whenever the CDP result has the form "CDP is ON, <N> peers", N is a
\* non-negative integer, also for an empty 'sh cdp nei' output and for one
\* without the "Device ID" header.
C18_PeerCountNotNegative ==
    (device_cdp # None /\ StartsWith(device_cdp, <<"C","D","P"," ","i","s"," ","O","N">>)) =>
        \E n \in 0..(MaxNeiLines + 1) :
            device_cdp = <<"C","D","P"," ","i","s"," ","O","N",","," ">>
                         \o Str(n) \o <<" ","p","e","e","r","s">>

\* C19: every configuration command the program sends is "ntp server <ntp>"
\* with the ntp field of the device of that session, it is the only one on
\* that session, and it follows a successful ping on that session whose
\* output lacks "Success rate is 0"; with "Success rate is 0" no
\* configuration command is sent at all.
C19_OnlyNtpServerConfigured ==
    /\ Contains(cli.ping, S_RATE0) =>
          \A k \in 1..Len(cmdlog) : cmdlog[k].op # "send_config_set"
    /\ \A k \in 1..Len(cmdlog) :
          cmdlog[k].op = "send_config_set" =>
              LET c == cmdlog[k].conn
              IN  /\ c \in 1..Len(sessions)
                  /\ cmdlog[k].text =
                        <<"n","t","p"," ","s","e","r","v","e","r"," ">> \o device_list[c].ntp
                  /\ sessions[c].hostname = device_list[c].hostname
                  /\ \A j \in 1..Len(cmdlog) :
                        (cmdlog[j].op = "send_config_set" /\ cmdlog[j].conn = c) => j = k
                  /\ \E j \in 1..(k - 1) :
                        /\ cmdlog[j].conn = c
                        /\ cmdlog[j].text = <<"p","i","n","g"," ">> \o device_list[c].ntp
                        /\ cmdlog[j].ok

\* C19 witness: two devices with different NTP servers have each been sent
\* their own "ntp server" command.
C19_Witness ==
    /\ pc = "done"
    /\ Len(sessions) = 2
    /\ device_list[1].ntp # device_list[2].ntp
    /\ \A c \in 1..2 :
          \E k \in 1..Len(cmdlog) :
              /\ cmdlog[k].conn = c
              /\ cmdlog[k].op = "send_config_set"
              /\ cmdlog[k].text = CMD_NTP_SERVER \o device_list[c].ntp

\* the files at the backup path of the device being processed
FilesAtPath == {f \in files : f.path = backup_file_path}

====
